---- MODULE Spec2Model ----
(***************************************************************************)
(* AniXLinks: the playlist collector of src/AniXLinks.py as a state        *)
(* machine.  A run of main() is: process_sources (fetch, classify, parse   *)
(* every primary source, then every discovered secondary playlist),        *)
(* filter_active_channels (a pool of probe workers and one collecting      *)
(* thread), the three exports, and the exit status.                        *)
(*                                                                         *)
(* Text is modelled as a sequence of tokens: a token is one character or   *)
(* one indivisible substring the code searches for ("#EXTINF:", "http://", *)
(* an attribute such as tvg-logo="L").  A line and a URL are sequences of  *)
(* tokens; a name is the sequence of tokens the parser extracts.           *)
(***************************************************************************)
EXTENDS Naturals, Sequences, FiniteSets, TLC

VARIABLES
    pc,                \* position of main() / process_sources
    check_links,       \* self.check_links
    heap,              \* the channel dicts admitted so far, by object identity
    channels,          \* self.channels: group label -> list of channel objects
    seen_urls,         \* self.seen_urls
    url_status_cache,  \* self.url_status_cache: url -> <<is_active, resolved>>
    clock,             \* datetime.now(): one tick per timestamp taken
    src_idx,           \* loop index of "for i, url in enumerate(source_urls, 1)"
    all_m3u_urls,      \* the set of discovered secondary playlist URLs
    m3u_done,          \* the secondary playlist URLs the second loop has handled
    fetched,           \* log of the sources handled so far, in the driver's order
    active_channels,   \* filter_active_channels' local accumulator
    tasks,             \* the futures of the validator's pool, in submission order
    exit_code,         \* the status main() exits with ("none" while running)
    call,              \* the last parser call: its input and the state before it
    fetch,             \* the last fetch_content call of the driver's loops
    files,             \* the files this run has written: file name -> content
    lock               \* self.lock: 0 when free, else the task whose worker holds it

vars == <<pc, check_links, heap, channels, seen_urls, url_status_cache, clock,
          src_idx, all_m3u_urls, m3u_done, fetched, active_channels, tasks, exit_code, call,
          fetch, files, lock>>

(***************************************************************************)
(* Bounds of the model.                                                    *)
(***************************************************************************)
\* The remote sources list at most this many distinct stream URLs in one run.
MaxChannels == 2
\* The playlists handed to the parser on its own have at most this many lines.
MaxLines == 4

(***************************************************************************)
(* Strings.                                                                *)
(***************************************************************************)
\* str.isspace / regex \s on one token
IsSpace(tok) == tok \in {" ", "\t", "\n"}

RECURSIVE lstrip(_)
lstrip(s) == IF s # <<>> /\ IsSpace(Head(s)) THEN lstrip(Tail(s)) ELSE s

RECURSIVE rstrip(_)
rstrip(s) ==
    IF s # <<>> /\ IsSpace(s[Len(s)]) THEN rstrip(SubSeq(s, 1, Len(s) - 1)) ELSE s

\* str.strip()
strip(s) == rstrip(lstrip(s))

\* str.startswith(prefix), the prefix being one token
startswith(s, prefix) == s # <<>> /\ Head(s) = prefix

\* str.endswith(suffix), the suffix being one token
endswith(s, suffix) == s # <<>> /\ s[Len(s)] = suffix

\* "sub in s", the substring being one token
contains(s, sub) == \E i \in 1..Len(s) : s[i] = sub

\* str.replace(old, new): every occurrence is replaced, not only the first
replace(s, old, new) == [i \in 1..Len(s) |-> IF s[i] = old THEN new ELSE s[i]]

\* re.sub(r'\s', ' ', s): every whitespace character becomes a space, runs stay
re_sub_ws_each(s) == [i \in 1..Len(s) |-> IF IsSpace(s[i]) THEN " " ELSE s[i]]

\* re.sub(r'\s+', ' ', s): every run of whitespace becomes one space
RECURSIVE re_sub_ws(_)
re_sub_ws(s) ==
    IF s = <<>> THEN <<>>
    ELSE IF IsSpace(Head(s))
         THEN <<" ">> \o re_sub_ws(lstrip(s))
         ELSE <<Head(s)>> \o re_sub_ws(Tail(s))

(***************************************************************************)
(* The collector's data.                                                   *)
(***************************************************************************)
default_logo == "https://via.placeholder.com/100x100.png?text=AniXLinks"

\* A dict key that is not set (channel.get("status") is None).
Absent == "absent"

\* defaultdict(list) with no key
EmptyDict == [g \in {} |-> <<>>]

\* self.channels[group].append(obj) on a defaultdict(list)
dict_append(d, group, obj) ==
    IF group \in DOMAIN d
    THEN [d EXCEPT ![group] = Append(@, obj)]
    ELSE [g \in DOMAIN d \cup {group} |-> IF g = group THEN <<obj>> ELSE d[g]]

\* hashlib.md5(f"{name}_{url}") : the hashed text stands for its digest
generate_channel_id(name, url) == name \o <<"_">> \o url

\* The objects of a store, in no order
RECURSIVE SeqToSet(_)
SeqToSet(s) == IF s = <<>> THEN {} ELSE {Head(s)} \cup SeqToSet(Tail(s))

StoreObjs(d) == UNION {SeqToSet(d[g]) : g \in DOMAIN d}

\* sum(len(ch) for ch in d.values())
RECURSIVE SumLen(_, _)
SumLen(d, groups) ==
    IF groups = {} THEN 0
    ELSE LET g == CHOOSE x \in groups : TRUE
         IN  Len(d[g]) + SumLen(d, groups \ {g})

total_channels(d) == SumLen(d, DOMAIN d)

(***************************************************************************)
(* parse_m3u_content.                                                      *)
(***************************************************************************)
\* The attribute tokens a metadata line may carry: key="value"
AttrKey(tok) ==
    CASE tok \in {"tvg-logo=\"L\"", "tvg-logo=\"\""}       -> "tvg-logo"
      [] tok \in {"group-title=\"G\"", "group-title=\"\""} -> "group-title"
      [] tok \in {"tvg-id=\"I\""}                          -> "tvg-id"
      [] OTHER                                             -> "none"

AttrValue(tok) ==
    CASE tok = "tvg-logo=\"L\""    -> "L"
      [] tok = "group-title=\"G\"" -> "G"
      [] tok = "tvg-id=\"I\""      -> "I"
      [] OTHER                     -> ""

\* re.search(r'key="([^"]*)"', line): <<group(1)>> of the leftmost match, <<>> if none
re_search_attr(key, line) ==
    LET hits == {i \in 1..Len(line) : AttrKey(line[i]) = key}
    IN  IF hits = {} THEN <<>>
        ELSE <<AttrValue(line[CHOOSE i \in hits : \A j \in hits : i <= j])>>

\* re.search(r',(.+)$', line): <<group(1)>> of the leftmost match, <<>> if none.
\* "." matches no line break, so the match starts at the first comma that has
\* text after it and no line break up to the end.
re_search_name(line) ==
    LET hits == {i \in 1..Len(line) :
                    /\ line[i] = ","
                    /\ i < Len(line)
                    /\ \A j \in (i + 1)..Len(line) : line[j] # "\n"}
    IN  IF hits = {} THEN <<>>
        ELSE <<SubSeq(line, (CHOOSE i \in hits : \A j \in hits : i <= j) + 1, Len(line))>>

URLSchemes == {"http://", "https://", "rtmp://", "rtsp://"}

\* line.startswith(('http://', 'https://', 'rtmp://', 'rtsp://'))
IsStreamLine(line) == line # <<>> /\ Head(line) \in URLSchemes

\* The dict built for a metadata line (the 'url' key is set on admission)
m3u_channel(line, source_url, now) ==
    LET logo_match  == re_search_attr("tvg-logo", line)
        group_match == re_search_attr("group-title", line)
        id_match    == re_search_attr("tvg-id", line)
        name_match  == re_search_name(line)
        name0 == IF name_match # <<>> THEN strip(name_match[1]) ELSE <<"Unknown Channel">>
        name  == strip(re_sub_ws(name0))
    IN  [id         |-> generate_channel_id(name, source_url),
         name       |-> name,
         logo       |-> IF logo_match # <<>> /\ logo_match[1] # "" THEN logo_match[1]
                        ELSE default_logo,
         group      |-> IF group_match # <<>> THEN group_match[1] ELSE "General",
         tvg_id     |-> IF id_match # <<>> THEN id_match[1] ELSE "",
         source     |-> source_url,
         added_date |-> now,
         url        |-> <<>>,
         status     |-> Absent]

\* m3u_not_seen without the membership test
m3u_not_seen_any(line, seen) == TRUE

\* "if line not in self.seen_urls"
m3u_not_seen(line, seen) == line \notin seen

\* The parser's state: the collector's fields it touches and its locals.
\* current_channel is <<>> for the empty dict, <<d>> for the dict d.
ParserState(h, ch, seen, now) ==
    [heap |-> h, channels |-> ch, seen_urls |-> seen, clock |-> now,
     current_channel |-> <<>>, channel_count |-> 0]

\* parse_m3u_line in which a metadata line does not replace a pending one
parse_m3u_line_keep_pending(st, raw, source_url) ==
    LET line == strip(raw) IN
    IF startswith(line, "#EXTINF:")
    THEN [st EXCEPT !.current_channel =
                        IF @ # <<>> THEN @ ELSE <<m3u_channel(line, source_url, st.clock)>>,
                    !.clock = @ + 1]
    ELSE IF IsStreamLine(line) /\ st.current_channel # <<>>
    THEN IF m3u_not_seen(line, st.seen_urls)
         THEN LET obj == [st.current_channel[1] EXCEPT !.url = line]
              IN  [st EXCEPT !.seen_urls = @ \cup {line},
                             !.heap = Append(@, obj),
                             !.channels = dict_append(@, obj.group, Len(st.heap) + 1),
                             !.channel_count = @ + 1,
                             !.current_channel = <<>>]
         ELSE [st EXCEPT !.current_channel = <<>>]
    ELSE st

\* parse_m3u_line in which a URL line rejected as a duplicate leaves the metadata pending
parse_m3u_line_dup_keeps(st, raw, source_url) ==
    LET line == strip(raw) IN
    IF startswith(line, "#EXTINF:")
    THEN [st EXCEPT !.current_channel = <<m3u_channel(line, source_url, st.clock)>>,
                    !.clock = @ + 1]
    ELSE IF IsStreamLine(line) /\ st.current_channel # <<>>
    THEN IF m3u_not_seen(line, st.seen_urls)
         THEN LET obj == [st.current_channel[1] EXCEPT !.url = line]
              IN  [st EXCEPT !.seen_urls = @ \cup {line},
                             !.heap = Append(@, obj),
                             !.channels = dict_append(@, obj.group, Len(st.heap) + 1),
                             !.channel_count = @ + 1,
                             !.current_channel = <<>>]
         ELSE st
    ELSE st

\* One iteration of "for line in lines"
parse_m3u_line(st, raw, source_url) ==
    LET line == strip(raw) IN
    IF startswith(line, "#EXTINF:")
    THEN [st EXCEPT !.current_channel = <<m3u_channel(line, source_url, st.clock)>>,
                    !.clock = @ + 1]
    ELSE IF IsStreamLine(line) /\ st.current_channel # <<>>
    THEN IF m3u_not_seen(line, st.seen_urls)
         THEN LET obj == [st.current_channel[1] EXCEPT !.url = line]
              IN  [st EXCEPT !.seen_urls = @ \cup {line},
                             !.heap = Append(@, obj),
                             !.channels = dict_append(@, obj.group, Len(st.heap) + 1),
                             !.channel_count = @ + 1,
                             !.current_channel = <<>>]
         ELSE [st EXCEPT !.current_channel = <<>>]
    ELSE st

RECURSIVE parse_m3u_lines(_, _, _)
parse_m3u_lines(st, lines, source_url) ==
    IF lines = <<>> THEN st
    ELSE parse_m3u_lines(parse_m3u_line(st, Head(lines), source_url), Tail(lines), source_url)

\* parse_m3u_content(lines, source_url) from the state st of the collector
parse_m3u_content(st, lines, source_url) ==
    parse_m3u_lines([st EXCEPT !.current_channel = <<>>, !.channel_count = 0],
                    lines, source_url)

(***************************************************************************)
(* parse_json_content.  json.loads is the library's: a document is carried *)
(* with its parse, [t |-> "invalid"] when json.loads raises, otherwise     *)
(* [t |-> "list", v |-> items] or [t |-> "other"]; an item is              *)
(* [t |-> "dict", v |-> the object] or [t |-> "other"].                    *)
(***************************************************************************)
\* dict.get(key, default)
dict_get(d, key, default) == IF key \in DOMAIN d THEN d[key] ELSE default

\* json_admits without the membership test
json_admits_any(url, seen) == url # <<>>

\* "if url and url not in self.seen_urls"
json_admits(url, seen) == url # <<>> /\ url \notin seen

\* parse_json_item in which an admitted URL is recorded as seen and no record is stored
parse_json_item_unlisted(st, item, source_url) ==
    IF item.t = "dict" /\ "url" \in DOMAIN item.v
    THEN LET url == dict_get(item.v, "url", <<>>)
         IN  IF json_admits(url, st.seen_urls)
             THEN [st EXCEPT !.seen_urls = @ \cup {url}, !.clock = @ + 1]
             ELSE st
    ELSE st

\* One iteration of "for item in data"
parse_json_item(st, item, source_url) ==
    IF item.t = "dict" /\ "url" \in DOMAIN item.v
    THEN LET name  == dict_get(item.v, "name", <<"Unknown Channel">>)
             url   == dict_get(item.v, "url", <<>>)
             logo  == dict_get(item.v, "img", dict_get(item.v, "logo", default_logo))
             group == dict_get(item.v, "type", dict_get(item.v, "category", "General"))
         IN  IF json_admits(url, st.seen_urls)
             THEN LET obj == [id         |-> generate_channel_id(name, url),
                              name       |-> name,
                              logo       |-> logo,
                              group      |-> group,
                              tvg_id     |-> "",
                              source     |-> source_url,
                              added_date |-> st.clock,
                              url        |-> url,
                              status     |-> Absent]
                  IN  [st EXCEPT !.seen_urls = @ \cup {url},
                                 !.heap = Append(@, obj),
                                 !.channels = dict_append(@, group, Len(st.heap) + 1),
                                 !.clock = @ + 1,
                                 !.channel_count = @ + 1]
             ELSE st
    ELSE st

RECURSIVE parse_json_items(_, _, _)
parse_json_items(st, items, source_url) ==
    IF items = <<>> THEN st
    ELSE parse_json_items(parse_json_item(st, Head(items), source_url), Tail(items), source_url)

\* parse_json_content(content, source_url), data being json.loads(content)
parse_json_content(st, data, source_url) ==
    IF data.t = "list"
    THEN parse_json_items([st EXCEPT !.current_channel = <<>>, !.channel_count = 0],
                          data.v, source_url)
    ELSE st


(***************************************************************************)
(* fetch_content.  One attempt either raises requests.RequestException     *)
(* ([ok |-> FALSE]) or yields a response ([ok |-> TRUE, resp |-> r]), r    *)
(* being [ctype_json, raw, data, hrefs]: raw the body's lines as           *)
(* iter_lines gives them, data what json.loads makes of the body and hrefs *)
(* the href/src attributes BeautifulSoup finds in it.                      *)
(***************************************************************************)
max_retries == 3

\* '\n'.join(lines)
RECURSIVE join_lines(_)
join_lines(lines) ==
    IF lines = <<>> THEN <<>>
    ELSE IF Len(lines) = 1 THEN lines[1]
    ELSE lines[1] \o <<"\n">> \o join_lines(Tail(lines))

\* [line.strip() for line in response.iter_lines() if line]
RECURSIVE iter_stripped(_)
iter_stripped(raw) ==
    IF raw = <<>> THEN <<>>
    ELSE IF Head(raw) # <<>> THEN <<strip(Head(raw))>> \o iter_stripped(Tail(raw))
    ELSE iter_stripped(Tail(raw))

\* The (content, lines) one successful response gives
response_lines(resp) ==
    IF resp.ctype_json THEN <<join_lines(resp.raw)>> ELSE iter_stripped(resp.raw)

response_content(resp) ==
    IF resp.ctype_json THEN join_lines(resp.raw) ELSE join_lines(iter_stripped(resp.raw))

NoResult == [content |-> <<>>, lines |-> <<>>, data |-> [t |-> "invalid"],
             hrefs |-> <<>>, attempts |-> max_retries]

\* The loop "for attempt in range(max_retries)" from attempt k on; outcomes[k] is
\* what the k-th request meets
RECURSIVE fetch_from(_, _)
fetch_from(outcomes, k) ==
    IF k > max_retries THEN NoResult
    ELSE IF ~outcomes[k].ok THEN fetch_from(outcomes, k + 1)
    ELSE IF response_lines(outcomes[k].resp) # <<>>
         THEN [content  |-> response_content(outcomes[k].resp),
               lines    |-> response_lines(outcomes[k].resp),
               data     |-> outcomes[k].resp.data,
               hrefs    |-> outcomes[k].resp.hrefs,
               attempts |-> k]
         ELSE fetch_from(outcomes, k + 1)

fetch_content(outcomes) == fetch_from(outcomes, 1)

(***************************************************************************)
(* extract_stream_urls_from_html and is_valid_stream_url.                  *)
(***************************************************************************)
exclude_patterns == {"telegram", ".html", ".php", "github.com", "login", "signup",
                     "facebook.com", "twitter.com", "instagram.com", "youtube.com",
                     "ads", "advertising", "tracker", "analytics"}

is_valid_stream_url(url) ==
    /\ url # <<>>
    /\ ~ \E i \in 1..Len(url) : url[i] \in exclude_patterns
    /\ \/ url[Len(url)] \in {".m3u", ".m3u8", ".ts", ".mp4"}
       \/ \E i \in 1..Len(url) : url[i] \in {"playlist", "stream", "live", "rtmp://", "rtsp://"}

\* The elements the CSS selectors pick: href or src contains one of the hints
selected(href) ==
    \E i \in 1..Len(href) : href[i] \in {".m3u", ".m3u8", "playlist", "stream"}

\* urlparse(base_url).netloc: what lies between the scheme and the first "/"
RECURSIVE upto_slash(_)
upto_slash(s) ==
    IF s = <<>> \/ Head(s) = "/" THEN <<>> ELSE <<Head(s)>> \o upto_slash(Tail(s))

netloc(base_url) == upto_slash(Tail(base_url))

\* A relative href resolved against the page's scheme and host
resolve(href, base_url) ==
    IF startswith(href, "http://") \/ startswith(href, "https://") THEN href
    ELSE IF startswith(href, "/")
         THEN <<Head(base_url)>> \o netloc(base_url) \o href
         ELSE <<Head(base_url)>> \o netloc(base_url) \o <<"/">> \o href

\* The 'url' values of the page read as a JSON array
json_urls(data) ==
    IF data.t = "list"
    THEN {data.v[i].v.url : i \in {j \in 1..Len(data.v) :
                                     data.v[j].t = "dict" /\ "url" \in DOMAIN data.v[j].v}}
    ELSE {}

extract_stream_urls_from_html(content, hrefs, data, base_url) ==
    IF content = <<>> THEN {}
    ELSE {u \in {resolve(hrefs[i], base_url) :
                    i \in {j \in 1..Len(hrefs) : hrefs[j] # <<>> /\ selected(hrefs[j])}} :
             is_valid_stream_url(u)}
         \cup {u \in json_urls(data) : is_valid_stream_url(u)}

(***************************************************************************)
(* process_sources: how a fetched primary source is routed.                *)
(***************************************************************************)
\* content[:100]
first100(content) == SubSeq(content, 1, IF Len(content) < 100 THEN Len(content) ELSE 100)

\* str.lower(), token by token
lower(s) ==
    [i \in 1..Len(s) |-> CASE s[i] = "HTML"  -> "html"
                           [] s[i] = "JSON"  -> "json"
                           [] s[i] = ".JSON" -> ".json"
                           [] OTHER          -> s[i]]

\* "word in s": some token of s has the text of word in it
has_text(s, word) ==
    \E i \in 1..Len(s) :
        s[i] \in (CASE word = "html" -> {"html", ".html", "<html>"}
                   [] word = "json" -> {"json", ".json"}
                   [] OTHER         -> {word})

\* route with the JSON test the HTML test has: the word anywhere in the URL
route_json_in_url(url, content) ==
    IF endswith(url, ".html") \/ has_text(lower(url), "html")
    THEN "html"
    ELSE IF \/ endswith(url, ".json") \/ has_text(lower(url), "json")
            \/ has_text(lower(first100(content)), "json")
    THEN "json"
    ELSE "m3u"

\* The if / elif / else of the first loop of process_sources
route(url, content) ==
    IF endswith(url, ".html") \/ has_text(lower(url), "html")
    THEN "html"
    ELSE IF endswith(url, ".json") \/ has_text(lower(first100(content)), "json")
    THEN "json"
    ELSE "m3u"


(***************************************************************************)
(* check_link_active.  A probe meets one of: "ok" (a status below 400),    *)
(* "bad" (a status of 400 or above), "err" (requests.RequestException) or  *)
(* "exc" (any other exception, which nothing in the method catches);      *)
(* "none" stands for a probe that was not made.                            *)
(***************************************************************************)
Outcome == {"ok", "bad", "err", "exc"}

\* alt_url: the scheme prefix replaced wherever it occurs in the URL
alt_url_of(url) ==
    IF startswith(url, "https://") THEN replace(url, "https://", "http://")
    ELSE replace(url, "http://", "https://")

\* Whether the content probe (session.get) is made, given what the header probe met
get_attempted(head) == head = "err"

\* Whether control reaches the scheme flip
reaches_flip(head, get) == head = "bad" \/ (head = "err" /\ get \in {"bad", "err"})

\* Whether the opposite-scheme header probe is made
alt_attempted(url, head, get) == reaches_flip(head, get) /\ alt_url_of(url) # url

\* The probes really made, for the outcomes h, g, a the three requests would meet
probe_trace(url, h, g, a) ==
    [head |-> h,
     get  |-> IF get_attempted(h) THEN g ELSE "none",
     alt  |-> IF alt_attempted(url, h, IF get_attempted(h) THEN g ELSE "none")
              THEN a ELSE "none"]

\* What check_link_active does after a cache miss, given the probes' outcomes
probe_result(url, tr) ==
    IF tr.head = "ok" \/ tr.get = "ok"
    THEN [raised |-> FALSE, is_active |-> TRUE, updated_url |-> url]
    ELSE IF "exc" \in {tr.head, tr.get, tr.alt}
    THEN [raised |-> TRUE, is_active |-> FALSE, updated_url |-> url]
    ELSE IF tr.alt = "ok"
    THEN [raised |-> FALSE, is_active |-> TRUE, updated_url |-> alt_url_of(url)]
    ELSE [raised |-> FALSE, is_active |-> FALSE, updated_url |-> url]

\* self.url_status_cache[url] = (is_active, updated_url)
cache_put(cache, url, res) ==
    [u \in DOMAIN cache \cup {url} |->
        IF u = url THEN <<res.is_active, res.updated_url>> ELSE cache[u]]

(***************************************************************************)
(* The remote world of the model.                                          *)
(***************************************************************************)
get_premium_sources ==
    << <<"https://", "raw.host", "/", "list", ".m3u">>,
       <<"https://", "raw.host", "/", "index", ".html">>,
       <<"https://", "raw.host", "/", "channels", ".json">> >>

InvalidJSON == [t |-> "invalid"]

\* A playlist: two entries whose URLs differ only in the scheme
PlaylistA ==
    [ctype_json |-> FALSE,
     raw  |-> << <<"#EXTM3U">>,
                 <<"#EXTINF:", "-1", " ", "group-title=\"G\"", ",", "A", " ", " ", "B">>,
                 <<"http://", "a">>,
                 <<"#EXTINF:", "-1">>,
                 <<"https://", "a">> >>,
     data |-> InvalidJSON, hrefs |-> <<>>]

\* A playlist: one entry, and a URL line that follows no metadata line
PlaylistB ==
    [ctype_json |-> FALSE,
     raw  |-> << <<"#EXTINF:", "-1", " ", "tvg-logo=\"L\"", ",", "C">>,
                 <<" ", "https://", "a">>,
                 <<"https://", "b">> >>,
     data |-> InvalidJSON, hrefs |-> <<>>]

\* A playlist whose stream URL carries a second URL (a proxy link)
PlaylistP ==
    [ctype_json |-> FALSE,
     raw  |-> << <<"#EXTINF:", "-1", ",", "P">>,
                 <<"http://", "p", "/", "http://", "a">>,
                 <<"#EXTINF:", "-1", ",", "R">>,
                 <<"rtmp://", "a">> >>,
     data |-> InvalidJSON, hrefs |-> <<>>]

\* A playlist that names a guide file ending in .json in its first line
PlaylistG ==
    [ctype_json |-> FALSE,
     raw  |-> << <<"#EXTM3U", " ", "url-tvg=", "guide", ".json">>,
                 <<"#EXTINF:", "-1", ",", "A">>,
                 <<"http://", "a">> >>,
     data |-> InvalidJSON, hrefs |-> <<>>]

\* A JSON catalog: a channel, an entry with an empty url, an entry with none
CatalogJ ==
    [ctype_json |-> TRUE,
     raw  |-> << <<"[{\"name\":..}]">> >>,
     data |-> [t |-> "list",
               v |-> << [t |-> "dict", v |-> [name |-> <<"J">>, url |-> <<"https://", "a">>,
                                              type |-> "G"]],
                        [t |-> "dict", v |-> [name |-> <<"E">>, url |-> <<>>]],
                        [t |-> "dict", v |-> [name |-> <<"N">>]],
                        [t |-> "other"] >>],
     hrefs |-> <<>>]

\* An HTML page: a relative playlist link and a link the validity filter rejects
PageH ==
    [ctype_json |-> FALSE,
     raw  |-> << <<"<html>">> >>,
     data |-> InvalidJSON,
     hrefs |-> << <<"video", ".m3u8">>, <<"https://", "facebook.com", "/", "x", ".m3u8">>,
                  <<"about", ".php">> >>]

\* A response with no body
EmptyBody == [ctype_json |-> FALSE, raw |-> <<>>, data |-> InvalidJSON, hrefs |-> <<>>]

\* A 200 answer with a JSON content type and an empty body
BlankBody == [ctype_json |-> TRUE, raw |-> <<>>, data |-> InvalidJSON, hrefs |-> <<>>]

\* What the remote world may answer a request for url with: each source of the
\* model serves a few bodies, among them one its URL does not announce
Responses(url) ==
    CASE contains(url, ".html") -> {PageH, CatalogJ}
      [] contains(url, ".json") -> {CatalogJ, PlaylistB, BlankBody}
      [] contains(url, ".m3u")  -> {PlaylistA, PlaylistP, EmptyBody}
      [] OTHER                  -> {PlaylistA, PlaylistB, PlaylistG, EmptyBody}

\* What one attempt of fetch_content may meet
AttemptOutcomes(url) == {[ok |-> FALSE]} \cup {[ok |-> TRUE, resp |-> r] : r \in Responses(url)}


(***************************************************************************)
(* main() and process_sources.                                             *)
(***************************************************************************)
\* The collector's fields as the parsers take them
Collector == ParserState(heap, channels, seen_urls, clock)

NoCall == [parser |-> "none", source |-> <<>>, lines |-> <<>>, data |-> InvalidJSON,
           heap_before |-> 0, seen_before |-> {}, clock_before |-> 0]

CallOf(parser, source, lines, data) ==
    [parser |-> parser, source |-> source, lines |-> lines, data |-> data,
     heap_before |-> Len(heap), seen_before |-> seen_urls, clock_before |-> clock]

\* No fetch_content call is in progress or awaits its handling
NoFetch == [url |-> <<>>, outcomes |-> <<>>, content |-> <<>>, lines |-> <<>>]

\* What one fetch_content(url) call did: the outcomes of the attempts it made, in
\* order, and the (content, lines) it returned; content None is <<>>
FetchOf(url, outcomes, r) ==
    [url |-> url, outcomes |-> SubSeq(outcomes, 1, r.attempts),
     content |-> r.content, lines |-> r.lines]

\* The output directory before the exports
NoFiles == [f \in {} |-> <<>>]

Init ==
    /\ pc = "main"
    /\ check_links \in BOOLEAN
    /\ heap = <<>>
    /\ channels = EmptyDict
    /\ seen_urls = {}
    /\ url_status_cache = EmptyDict
    /\ clock = 0
    /\ src_idx = 0
    /\ all_m3u_urls = {}
    /\ m3u_done = {}
    /\ fetched = <<>>
    /\ active_channels = EmptyDict
    /\ tasks = <<>>
    /\ exit_code = "none"
    /\ call = NoCall
    /\ fetch = NoFetch
    /\ files = NoFiles
    /\ lock = 0

\* process_sources up to its first loop: the three clear() calls
BeginProcessSources ==
    /\ pc = "main"
    /\ pc' = "primary"
    /\ channels' = EmptyDict
    /\ seen_urls' = {}
    /\ url_status_cache' = EmptyDict
    /\ all_m3u_urls' = {}
    /\ src_idx' = 1
    /\ UNCHANGED <<check_links, heap, clock, m3u_done, fetched, active_channels, tasks,
                   exit_code, call, fetch, files, lock>>

\* The store, the seen set and the clock after a parser ran; the last conjunct
\* is the bound on what the remote sources list
Install(st) ==
    /\ heap' = st.heap
    /\ channels' = st.channels
    /\ seen_urls' = st.seen_urls
    /\ clock' = st.clock
    /\ Cardinality(st.seen_urls) <= MaxChannels

\* One iteration of "for i, url in enumerate(source_urls, 1)"
ProcessSource ==
    /\ pc = "primary"
    /\ src_idx <= Len(get_premium_sources)
    /\ \E o1 \in AttemptOutcomes(get_premium_sources[src_idx]),
          o2 \in AttemptOutcomes(get_premium_sources[src_idx]),
          o3 \in AttemptOutcomes(get_premium_sources[src_idx]) :
         LET url == get_premium_sources[src_idx]
             r   == fetch_content(<<o1, o2, o3>>)
             to  == IF r.content = <<>> THEN "skipped" ELSE route(url, r.content)
         IN  /\ Install(CASE to = "json" -> parse_json_content(Collector, r.data, url)
                          [] to = "m3u"  -> parse_m3u_content(Collector, r.lines, url)
                          [] OTHER       -> Collector)
             /\ all_m3u_urls' =
                   IF to = "html"
                   THEN all_m3u_urls \cup
                        extract_stream_urls_from_html(r.content, r.hrefs, r.data, url)
                   ELSE all_m3u_urls
             /\ call' = IF to \in {"json", "m3u"} THEN CallOf(to, url, r.lines, r.data)
                        ELSE NoCall
             /\ fetched' = Append(fetched, [source |-> url, parser |-> to,
                                            lines |-> r.lines, data |-> r.data])
             /\ fetch' = FetchOf(url, <<o1, o2, o3>>, r)
    /\ src_idx' = src_idx + 1
    /\ pc' = IF src_idx = Len(get_premium_sources) THEN "secondary" ELSE "primary"
    /\ UNCHANGED <<check_links, url_status_cache, m3u_done, active_channels, tasks,
                   exit_code, files, lock>>

\* discovered_parser with the classification of the first loop
discovered_parser_routed(m3u_url, r) ==
    IF r.lines # <<>> THEN route(m3u_url, r.content) ELSE "skipped"

\* "if lines: self.parse_m3u_content(lines, m3u_url)"
discovered_parser(m3u_url, r) == IF r.lines # <<>> THEN "m3u" ELSE "skipped"

\* One iteration of "for m3u_url in all_m3u_urls": a set is walked in no fixed order
ProcessDiscovered ==
    /\ pc = "secondary"
    /\ \E m3u_url \in all_m3u_urls \ m3u_done :
         \E o1 \in AttemptOutcomes(m3u_url), o2 \in AttemptOutcomes(m3u_url),
            o3 \in AttemptOutcomes(m3u_url) :
           LET r  == fetch_content(<<o1, o2, o3>>)
               to == discovered_parser(m3u_url, r)
           IN  /\ Install(IF to = "m3u" THEN parse_m3u_content(Collector, r.lines, m3u_url)
                          ELSE Collector)
               /\ call' = IF to = "m3u" THEN CallOf(to, m3u_url, r.lines, r.data) ELSE NoCall
               /\ fetched' = Append(fetched, [source |-> m3u_url, parser |-> to,
                                              lines |-> r.lines, data |-> r.data])
               /\ fetch' = FetchOf(m3u_url, <<o1, o2, o3>>, r)
               /\ m3u_done' = m3u_done \cup {m3u_url}
    /\ UNCHANGED <<pc, check_links, url_status_cache, src_idx, all_m3u_urls,
                   active_channels, tasks, exit_code, files, lock>>

\* Both loops of process_sources are over; the actions that leave them forget
\* the loops' locals (fetch), which nothing reads afterwards
SourcesDone == pc = "secondary" /\ all_m3u_urls \subseteq m3u_done

\* "if self.channels: ... else: logging.warning(No channels found)"
NoChannels ==
    /\ SourcesDone
    /\ DOMAIN channels = {}
    /\ pc' = "export"
    /\ fetch' = NoFetch
    /\ UNCHANGED <<check_links, heap, channels, seen_urls, url_status_cache, clock, src_idx,
                   all_m3u_urls, m3u_done, fetched, active_channels, tasks, exit_code, call,
                   files, lock>>

(***************************************************************************)
(* filter_active_channels.                                                 *)
(***************************************************************************)
max_workers == 20

\* self.channels.items() walks the groups in the order their keys were set: a
\* key is set by the first append to it, so by the oldest object of its list
RECURSIVE all_channels_from(_, _)
all_channels_from(d, groups) ==
    IF groups = {} THEN <<>>
    ELSE LET g == CHOOSE x \in groups : \A y \in groups : d[x][1] <= d[y][1]
         IN  [i \in 1..Len(d[g]) |-> [group |-> g, ch |-> d[g][i]]]
             \o all_channels_from(d, groups \ {g})

\* [(group, ch) for group, chans in self.channels.items() for ch in chans]
all_channels(d) == all_channels_from(d, DOMAIN d)

\* "if not self.check_links: return"
SkipValidation ==
    /\ SourcesDone
    /\ DOMAIN channels # {}
    /\ ~check_links
    /\ pc' = "export"
    /\ fetch' = NoFetch
    /\ UNCHANGED <<check_links, heap, channels, seen_urls, url_status_cache, clock, src_idx,
                   all_m3u_urls, m3u_done, fetched, active_channels, tasks, exit_code, call,
                   files, lock>>

\* executor.submit(self.check_link_active, ch['url']) for every channel
StartValidation ==
    /\ SourcesDone
    /\ DOMAIN channels # {}
    /\ check_links
    /\ active_channels' = EmptyDict
    /\ tasks' = [i \in 1..Len(all_channels(channels)) |->
                   [group |-> all_channels(channels)[i].group,
                    ch    |-> all_channels(channels)[i].ch,
                    url   |-> heap[all_channels(channels)[i].ch].url,
                    st    |-> "pending",
                    head  |-> "none", get |-> "none", alt |-> "none",
                    raised |-> FALSE, is_active |-> FALSE, updated_url |-> <<>>]]
    /\ pc' = "validating"
    /\ fetch' = NoFetch
    /\ UNCHANGED <<check_links, heap, channels, seen_urls, url_status_cache, clock, src_idx,
                   all_m3u_urls, m3u_done, fetched, exit_code, call, files, lock>>

\* The tasks a worker thread has taken from the pool's queue and not yet finished
Running == {t \in 1..Len(tasks) : tasks[t].st \in {"started", "checking", "probing", "storing"}}

\* "if url in self.url_status_cache"
cache_hit(cache, url) == url \in DOMAIN cache

\* WorkerStart in a pool with no limit on its threads
WorkerStartUnbounded(t) ==
    /\ pc = "validating"
    /\ tasks[t].st = "pending"
    /\ tasks' = [tasks EXCEPT ![t].st = "started"]
    /\ UNCHANGED <<pc, check_links, heap, channels, seen_urls, url_status_cache, clock,
                   src_idx, all_m3u_urls, m3u_done, fetched, active_channels, exit_code, call,
                   fetch, files, lock>>

\* A worker thread takes task t from the pool's queue and calls check_link_active
WorkerStart(t) ==
    /\ pc = "validating"
    /\ tasks[t].st = "pending"
    /\ Cardinality(Running) < max_workers
    /\ tasks' = [tasks EXCEPT ![t].st = "started"]
    /\ UNCHANGED <<pc, check_links, heap, channels, seen_urls, url_status_cache, clock,
                   src_idx, all_m3u_urls, m3u_done, fetched, active_channels, exit_code, call,
                   fetch, files, lock>>

\* The worker of task t enters the first "with self.lock" of check_link_active
WorkerAcquire(t) ==
    /\ pc = "validating"
    /\ tasks[t].st = "started"
    /\ lock = 0
    /\ lock' = t
    /\ tasks' = [tasks EXCEPT ![t].st = "checking"]
    /\ UNCHANGED <<pc, check_links, heap, channels, seen_urls, url_status_cache, clock,
                   src_idx, all_m3u_urls, m3u_done, fetched, active_channels, exit_code, call,
                   fetch, files>>

\* The body of the first "with self.lock" and its exit: the cached pair is
\* returned, or the probes begin
WorkerCheckCache(t) ==
    /\ pc = "validating"
    /\ tasks[t].st = "checking"
    /\ tasks' = IF cache_hit(url_status_cache, tasks[t].url)
                THEN [tasks EXCEPT ![t].st = "done",
                                   ![t].is_active = url_status_cache[tasks[t].url][1],
                                   ![t].updated_url = url_status_cache[tasks[t].url][2]]
                ELSE [tasks EXCEPT ![t].st = "probing"]
    /\ lock' = 0
    /\ UNCHANGED <<pc, check_links, heap, channels, seen_urls, url_status_cache, clock,
                   src_idx, all_m3u_urls, m3u_done, fetched, active_channels, exit_code, call,
                   fetch, files>>

\* WorkerProbe whose result is stored without entering "with self.lock"
WorkerProbeUnlocked(t) ==
    /\ pc = "validating"
    /\ tasks[t].st = "probing"
    /\ \E h \in Outcome, g \in Outcome, a \in Outcome :
         LET tr  == probe_trace(tasks[t].url, h, g, a)
             res == probe_result(tasks[t].url, tr)
         IN  /\ tasks' = [tasks EXCEPT ![t].st = IF res.raised THEN "done" ELSE "storing",
                                       ![t].head = tr.head, ![t].get = tr.get,
                                       ![t].alt = tr.alt,
                                       ![t].raised = res.raised,
                                       ![t].is_active = res.is_active,
                                       ![t].updated_url = res.updated_url]
             /\ lock' = lock
    /\ UNCHANGED <<pc, check_links, heap, channels, seen_urls, url_status_cache, clock,
                   src_idx, all_m3u_urls, m3u_done, fetched, active_channels, exit_code, call,
                   fetch, files>>

\* The probes of check_link_active for task t, which touch nothing shared, up
\* to the point where the worker has entered the "with self.lock" that stores the
\* result; an exception no handler catches ends the task without the lock
WorkerProbe(t) ==
    /\ pc = "validating"
    /\ tasks[t].st = "probing"
    /\ \E h \in Outcome, g \in Outcome, a \in Outcome :
         LET tr  == probe_trace(tasks[t].url, h, g, a)
             res == probe_result(tasks[t].url, tr)
         IN  /\ tasks' = [tasks EXCEPT ![t].st = IF res.raised THEN "done" ELSE "storing",
                                       ![t].head = tr.head, ![t].get = tr.get,
                                       ![t].alt = tr.alt,
                                       ![t].raised = res.raised,
                                       ![t].is_active = res.is_active,
                                       ![t].updated_url = res.updated_url]
             /\ IF res.raised THEN lock' = lock ELSE lock = 0 /\ lock' = t
    /\ UNCHANGED <<pc, check_links, heap, channels, seen_urls, url_status_cache, clock,
                   src_idx, all_m3u_urls, m3u_done, fetched, active_channels, exit_code, call,
                   fetch, files>>

\* "self.url_status_cache[url] = (..., ...)" and the exit of its "with self.lock"
WorkerStore(t) ==
    /\ pc = "validating"
    /\ tasks[t].st = "storing"
    /\ url_status_cache' = cache_put(url_status_cache, tasks[t].url,
                                     [is_active |-> tasks[t].is_active,
                                      updated_url |-> tasks[t].updated_url])
    /\ lock' = 0
    /\ tasks' = [tasks EXCEPT ![t].st = "done"]
    /\ UNCHANGED <<pc, check_links, heap, channels, seen_urls, clock, src_idx,
                   all_m3u_urls, m3u_done, fetched, active_channels, exit_code, call,
                   fetch, files>>

\* collected_channel without the else branch
collected_channel_no_else(ch, tk) ==
    IF tk.raised THEN ch
    ELSE IF tk.is_active THEN [ch EXCEPT !.url = tk.updated_url, !.status = "active"]
    ELSE ch

\* The channel dict after the body of "for future in as_completed(...)" for task tk
collected_channel(ch, tk) ==
    IF tk.raised THEN ch
    ELSE IF tk.is_active THEN [ch EXCEPT !.url = tk.updated_url, !.status = "active"]
    ELSE [ch EXCEPT !.status = "inactive"]

\* collect_keeps without the test of is_active
collect_keeps_all(tk) == ~tk.raised

\* "if is_active:" on a result that future.result() returned
collect_keeps(tk) == ~tk.raised /\ tk.is_active

\* One iteration of "for future in concurrent.futures.as_completed(...)": any
\* finished future comes next
Collect(t) ==
    /\ pc = "validating"
    /\ tasks[t].st = "done"
    /\ tasks' = [tasks EXCEPT ![t].st = "collected"]
    /\ heap' = [heap EXCEPT ![tasks[t].ch] = collected_channel(@, tasks[t])]
    /\ active_channels' = IF collect_keeps(tasks[t])
                          THEN dict_append(active_channels, tasks[t].group, tasks[t].ch)
                          ELSE active_channels
    /\ UNCHANGED <<pc, check_links, channels, seen_urls, url_status_cache, clock, src_idx,
                   all_m3u_urls, m3u_done, fetched, exit_code, call, fetch, files, lock>>

\* FinishValidation in which the store keeps the group keys it had, with the
\* records that passed
FinishValidationKeepsKeys ==
    /\ pc = "validating"
    /\ \A t \in 1..Len(tasks) : tasks[t].st = "collected"
    /\ channels' = [g \in DOMAIN channels |->
                      IF g \in DOMAIN active_channels THEN active_channels[g] ELSE <<>>]
    /\ pc' = "export"
    /\ UNCHANGED <<check_links, heap, seen_urls, url_status_cache, clock, src_idx,
                   all_m3u_urls, m3u_done, fetched, active_channels, tasks, exit_code, call,
                   fetch, files, lock>>

\* as_completed is exhausted, the pool is shut down: self.channels = active_channels
FinishValidation ==
    /\ pc = "validating"
    /\ \A t \in 1..Len(tasks) : tasks[t].st = "collected"
    /\ channels' = active_channels
    /\ pc' = "export"
    /\ UNCHANGED <<check_links, heap, seen_urls, url_status_cache, clock, src_idx,
                   all_m3u_urls, m3u_done, fetched, active_channels, tasks, exit_code, call,
                   fetch, files, lock>>

(***************************************************************************)
(* The exports.  A file is modelled by the values the code writes into it, *)
(* in the order it writes them.                                            *)
(***************************************************************************)
\* The group labels of the model in the order of Python's str comparison
GroupLabels == <<"", "G", "General", "K">>

\* group < other for two str keys
label_lt(group, other) ==
    \E i, j \in 1..Len(GroupLabels) :
        GroupLabels[i] = group /\ GroupLabels[j] = other /\ i < j

\* [group for group, channels in sorted(self.channels.items())]: the keys are
\* distinct, so the tuples are ordered by their labels alone
RECURSIVE sorted_items(_)
sorted_items(groups) ==
    IF groups = {} THEN <<>>
    ELSE LET g == CHOOSE x \in groups : \A y \in groups \ {x} : label_lt(x, y)
         IN  <<g>> \o sorted_items(groups \ {g})

\* channel.get("status", "unknown")
status_or_unknown(ch) == IF ch.status = Absent THEN "unknown" ELSE ch.status

\* The dict written for one channel of export_data["channels"][group]
json_channel(ch) ==
    [id |-> ch.id, name |-> ch.name, url |-> ch.url, logo |-> ch.logo,
     tvg_id |-> ch.tvg_id, source |-> ch.source, added_date |-> ch.added_date,
     status |-> status_or_unknown(ch)]

\* export_data of export_anixlinks_json; "groups" is list(self.channels.keys()),
\* kept as the set of keys
export_data(d, h, order, now) ==
    [meta |-> [generated_at   |-> now,
               total_channels |-> total_channels(d),
               total_groups   |-> Cardinality(DOMAIN d),
               groups         |-> DOMAIN d],
     channels |-> [k \in 1..Len(order) |->
                     [group    |-> order[k],
                      channels |-> [x \in 1..Len(d[order[k]]) |->
                                      json_channel(h[d[order[k]][x]])]]]]

\* The #EXTINF line and the URL line export_m3u writes for one channel
m3u_entry(group, ch) ==
    [extinf |-> [tvg_id |-> ch.tvg_id, logo |-> ch.logo, group |-> group, name |-> ch.name],
     url    |-> ch.url]

RECURSIVE m3u_body(_, _, _)
m3u_body(d, h, order) ==
    IF order = <<>> THEN <<>>
    ELSE [x \in 1..Len(d[Head(order)]) |-> m3u_entry(Head(order), h[d[Head(order)][x]])]
         \o m3u_body(d, h, Tail(order))

\* What export_m3u writes: the four header lines, then two lines per channel
m3u_file(d, h, order) ==
    [header |-> <<"#EXTM3U", "#EXTINF:-1,AniXLinks", "#EXTVLCOPT:http-user-agent", "">>,
     body   |-> m3u_body(d, h, order)]

\* active_count without the test of self.check_links
active_count_always(d, h, checked) ==
    [t |-> "int", v |-> Cardinality({i \in StoreObjs(d) : h[i].status = "active"})]

\* "sum(1 for ... if channel.get("status") == "active") if self.check_links
\* else "not_checked""
active_count(d, h, checked) ==
    IF checked
    THEN [t |-> "int", v |-> Cardinality({i \in StoreObjs(d) : h[i].status = "active"})]
    ELSE [t |-> "str", v |-> "not_checked"]

\* stats of export_stats
stats(d, h, checked, now) ==
    [generated_at     |-> now,
     total_channels   |-> total_channels(d),
     total_groups     |-> Cardinality(DOMAIN d),
     groups_breakdown |-> [g \in DOMAIN d |-> Len(d[g])],
     active_channels  |-> active_count(d, h, checked)]

\* open(filepath, 'w') and the dump: the file is created or overwritten
write_file(fs, name, content) ==
    [f \in DOMAIN fs \cup {name} |-> IF f = name THEN content ELSE fs[f]]

\* collector.export_anixlinks_json("AniXLinks.json")
ExportJSON ==
    /\ pc = "export"
    /\ pc' = "export_m3u"
    /\ files' = write_file(files, "AniXLinks.json",
                           export_data(channels, heap, sorted_items(DOMAIN channels), clock))
    /\ clock' = clock + 1
    /\ UNCHANGED <<check_links, heap, channels, seen_urls, url_status_cache, src_idx,
                   all_m3u_urls, m3u_done, fetched, active_channels, tasks, exit_code, call,
                   fetch, lock>>

\* collector.export_m3u("AniXLinks.m3u")
ExportM3U ==
    /\ pc = "export_m3u"
    /\ pc' = "export_stats"
    /\ files' = write_file(files, "AniXLinks.m3u",
                           m3u_file(channels, heap, sorted_items(DOMAIN channels)))
    /\ UNCHANGED <<check_links, heap, channels, seen_urls, url_status_cache, clock, src_idx,
                   all_m3u_urls, m3u_done, fetched, active_channels, tasks, exit_code, call,
                   fetch, lock>>

\* collector.export_stats("stats.json")
ExportStats ==
    /\ pc = "export_stats"
    /\ pc' = "exit"
    /\ files' = write_file(files, "stats.json", stats(channels, heap, check_links, clock))
    /\ clock' = clock + 1
    /\ UNCHANGED <<check_links, heap, channels, seen_urls, url_status_cache, src_idx,
                   all_m3u_urls, m3u_done, fetched, active_channels, tasks, exit_code, call,
                   fetch, lock>>

\* exit_status that never reports a failure
exit_status_always_zero(total) == 0

\* "if total_channels == 0: sys.exit(1)", else main() returns and the status is 0
exit_status(total) == IF total = 0 THEN 1 ELSE 0

\* The end of main(): sys.exit(1) if the store holds nothing, else the normal end
Exit ==
    /\ pc = "exit"
    /\ pc' = "done"
    /\ exit_code' = exit_status(total_channels(channels))
    /\ UNCHANGED <<check_links, heap, channels, seen_urls, url_status_cache, clock, src_idx,
                   all_m3u_urls, m3u_done, fetched, active_channels, tasks, call,
                   fetch, files, lock>>

Next ==
    \/ BeginProcessSources
    \/ ProcessSource
    \/ ProcessDiscovered
    \/ NoChannels
    \/ SkipValidation
    \/ StartValidation
    \/ \E t \in 1..Len(tasks) : WorkerStart(t)
    \/ \E t \in 1..Len(tasks) : WorkerAcquire(t)
    \/ \E t \in 1..Len(tasks) : WorkerCheckCache(t)
    \/ \E t \in 1..Len(tasks) : WorkerProbe(t)
    \/ \E t \in 1..Len(tasks) : WorkerStore(t)
    \/ \E t \in 1..Len(tasks) : Collect(t)
    \/ FinishValidation
    \/ ExportJSON
    \/ ExportM3U
    \/ ExportStats
    \/ Exit

Spec == Init /\ [][Next]_vars


(***************************************************************************)
(* The parsers on their own: one earlier parser call makes the prior state *)
(* of the store, then one call on an input drawn from a bounded set.       *)
(***************************************************************************)
UnitLines ==
    { <<"#EXTINF:", "-1", ",", " ", "A", " ", "\t", "B">>,
      <<"#EXTINF:", "-1", " ", "tvg-logo=\"\"", ",", "A", ",", "B">>,
      <<"#EXTINF:", "-1", " ", "group-title=\"G\"", ",">>,
      <<"#EXTINF:", "-1">>,
      <<"http://", "a">>,
      <<" ", "https://", "a", " ">>,
      <<"rtmp://", "a">>,
      <<"#EXTVLCOPT">>,
      <<>> }

UnitPlaylists == UNION {[1..n -> UnitLines] : n \in 1..MaxLines}

UnitItems ==
    { [t |-> "dict", v |-> [name |-> <<"J">>, url |-> <<"http://", "a">>, logo |-> ""]],
      [t |-> "dict", v |-> [url |-> <<"https://", "a">>, img |-> "I", logo |-> "L",
                            category |-> "K"]],
      [t |-> "dict", v |-> [name |-> <<"E">>, url |-> <<>>]],
      [t |-> "dict", v |-> [name |-> <<"N">>]],
      [t |-> "other"] }

UnitCatalogs ==
    {InvalidJSON, [t |-> "other"]} \cup
    {[t |-> "list", v |-> items] : items \in UNION {[1..n -> UnitItems] : n \in 1..MaxLines}}

UnitSource == <<"https://", "unit.host", "/", "second">>

InitParse ==
    /\ pc = "unit"
    /\ check_links = TRUE
    /\ heap = <<>>
    /\ channels = EmptyDict
    /\ seen_urls = {}
    /\ url_status_cache = EmptyDict
    /\ clock = 0
    /\ src_idx = 0
    /\ all_m3u_urls = {}
    /\ m3u_done = {}
    /\ fetched = <<>>
    /\ active_channels = EmptyDict
    /\ tasks = <<>>
    /\ exit_code = "none"
    /\ call = NoCall
    /\ fetch = NoFetch
    /\ files = NoFiles
    /\ lock = 0

InstallUnit(st) ==
    /\ heap' = st.heap
    /\ channels' = st.channels
    /\ seen_urls' = st.seen_urls
    /\ clock' = st.clock

\* A playlist whose last line is a metadata line that no URL line follows
PlaylistT ==
    [ctype_json |-> FALSE,
     raw  |-> << <<"#EXTINF:", "-1", ",", "T">>,
                 <<"http://", "a">>,
                 <<"#EXTINF:", "-1", ",", "U">> >>,
     data |-> InvalidJSON, hrefs |-> <<>>]

\* The earlier call: a first source's body through the parser it is routed to
UnitPrior ==
    /\ pc = "unit"
    /\ pc' = "unit_call"
    /\ \E resp \in {PlaylistA, PlaylistB, PlaylistP, PlaylistT, CatalogJ, EmptyBody} :
         LET url == get_premium_sources[1]
             to  == IF response_content(resp) = <<>> THEN "skipped"
                    ELSE route(url, response_content(resp))
         IN  /\ InstallUnit(CASE to = "json" -> parse_json_content(Collector, resp.data, url)
                              [] to = "m3u"  -> parse_m3u_content(Collector,
                                                                  response_lines(resp), url)
                              [] OTHER       -> Collector)
             /\ fetched' = Append(fetched, [source |-> url, parser |-> to,
                                            lines |-> response_lines(resp),
                                            data |-> resp.data])
    /\ UNCHANGED <<check_links, url_status_cache, src_idx, all_m3u_urls, m3u_done,
                   active_channels, tasks, exit_code, call, fetch, files, lock>>

\* parse_m3u_content on any playlist of the bounded set
UnitParseM3U ==
    /\ pc = "unit_call"
    /\ pc' = "unit_done"
    /\ \E lines \in UnitPlaylists :
         /\ InstallUnit(parse_m3u_content(Collector, lines, UnitSource))
         /\ call' = CallOf("m3u", UnitSource, lines, InvalidJSON)
    /\ UNCHANGED <<check_links, url_status_cache, src_idx, all_m3u_urls, m3u_done, fetched,
                   active_channels, tasks, exit_code, fetch, files, lock>>

\* parse_json_content on any catalog of the bounded set
UnitParseJSON ==
    /\ pc = "unit_call"
    /\ pc' = "unit_done"
    /\ \E data \in UnitCatalogs :
         /\ InstallUnit(parse_json_content(Collector, data, UnitSource))
         /\ call' = CallOf("json", UnitSource, <<>>, data)
    /\ UNCHANGED <<check_links, url_status_cache, src_idx, all_m3u_urls, m3u_done, fetched,
                   active_channels, tasks, exit_code, fetch, files, lock>>

NextParse == UnitPrior \/ UnitParseM3U \/ UnitParseJSON

SpecParse == InitParse /\ [][NextParse]_vars

(***************************************************************************)
(* The routing of one primary source on its own: fetch_content has just    *)
(* returned for a URL and a body drawn from bounded sets, and the body of  *)
(* the first loop of process_sources handles it.                           *)
(***************************************************************************)
UnitURLs ==
    { <<"https://", "h", "/", "list", ".m3u">>,
      <<"https://", "h", "/", "list">>,
      <<"https://", "h", "/", "index", ".html">>,
      <<"https://", "h", "/", "html", "/", "list">>,
      <<"https://", "h", "/", "HTML", "/", "list", ".m3u">>,
      <<"https://", "h", "/", "channels", ".json">>,
      <<"https://", "h", "/", "channels", ".json", "?", "v">>,
      <<"https://", "h", "/", "json", "/", "list">>,
      <<"https://", "h", "/", "feed", ".html", ".json">> }

\* A playlist in which the word json comes after its first 100 characters
PlaylistL ==
    [ctype_json |-> FALSE,
     raw  |-> << [i \in 1..100 |-> "#"],
                 <<"#EXTINF:", "-1", ",", "json">>,
                 <<"http://", "a">> >>,
     data |-> InvalidJSON, hrefs |-> <<>>]

UnitBodies == {PlaylistA, PlaylistB, PlaylistG, PlaylistL, CatalogJ, PageH, EmptyBody,
               BlankBody}

InitRoute ==
    /\ pc = "unit_route"
    /\ check_links = TRUE
    /\ heap = <<>>
    /\ channels = EmptyDict
    /\ seen_urls = {}
    /\ url_status_cache = EmptyDict
    /\ clock = 0
    /\ src_idx = 1
    /\ all_m3u_urls = {}
    /\ m3u_done = {}
    /\ fetched = <<>>
    /\ active_channels = EmptyDict
    /\ tasks = <<>>
    /\ exit_code = "none"
    /\ call = NoCall
    /\ \E url \in UnitURLs, resp \in UnitBodies :
         LET o == [ok |-> TRUE, resp |-> resp]
         IN  fetch = FetchOf(url, <<o, o, o>>, fetch_content(<<o, o, o>>))
    /\ files = NoFiles
    /\ lock = 0

\* The body of "for i, url in enumerate(source_urls, 1)" after fetch_content
UnitRoute ==
    /\ pc = "unit_route"
    /\ pc' = "unit_done"
    /\ LET url  == fetch.url
           resp == fetch.outcomes[Len(fetch.outcomes)].resp
           to   == IF fetch.content = <<>> THEN "skipped" ELSE route(url, fetch.content)
       IN  /\ InstallUnit(CASE to = "json" -> parse_json_content(Collector, resp.data, url)
                            [] to = "m3u"  -> parse_m3u_content(Collector, fetch.lines, url)
                            [] OTHER       -> Collector)
           /\ all_m3u_urls' =
                 IF to = "html"
                 THEN all_m3u_urls \cup
                      extract_stream_urls_from_html(fetch.content, resp.hrefs, resp.data, url)
                 ELSE all_m3u_urls
           /\ call' = IF to \in {"json", "m3u"} THEN CallOf(to, url, fetch.lines, resp.data)
                      ELSE NoCall
           /\ fetched' = Append(fetched, [source |-> url, parser |-> to,
                                          lines |-> fetch.lines, data |-> resp.data])
    /\ src_idx' = src_idx + 1
    /\ UNCHANGED <<check_links, url_status_cache, m3u_done, active_channels, tasks,
                   exit_code, fetch, files, lock>>

NextRoute == UnitRoute

SpecRoute == InitRoute /\ [][NextRoute]_vars

(***************************************************************************)
(* The validator with more channels than workers: one source has served a  *)
(* playlist of max_workers + 1 entries.  To keep the run finite the world  *)
(* of this specification is a narrow one: every stream answers its header  *)
(* probe, and the workers finish in the order the pool's queue hands the   *)
(* tasks out.                                                              *)
(***************************************************************************)
PoolSize == max_workers + 1

PoolSource == <<"https://", "pool.host", "/", "all", ".m3u">>

\* The playlist: an #EXTINF line and a URL line per channel
PoolPlaylist ==
    [k \in 1..(2 * PoolSize) |->
        IF k % 2 = 1 THEN <<"#EXTINF:", "-1", ",", ToString((k + 1) \div 2)>>
        ELSE <<"http://", "c", ToString(k \div 2)>>]

\* The collector when both loops of process_sources are over: what
\* parse_m3u_content makes of the playlist, one record per pair of lines, all in
\* the group 'General'
PoolIngested ==
    [heap      |-> [i \in 1..PoolSize |->
                      [m3u_channel(PoolPlaylist[2 * i - 1], PoolSource, i - 1)
                         EXCEPT !.url = PoolPlaylist[2 * i]]],
     channels  |-> [g \in {"General"} |-> [i \in 1..PoolSize |-> i]],
     seen_urls |-> {PoolPlaylist[2 * i] : i \in 1..PoolSize},
     clock     |-> PoolSize]

InitPool ==
    /\ pc = "secondary"
    /\ check_links = TRUE
    /\ heap = PoolIngested.heap
    /\ channels = PoolIngested.channels
    /\ seen_urls = PoolIngested.seen_urls
    /\ url_status_cache = EmptyDict
    /\ clock = PoolIngested.clock
    /\ src_idx = 2
    /\ all_m3u_urls = {}
    /\ m3u_done = {}
    /\ fetched = << [source |-> PoolSource, parser |-> "m3u", lines |-> PoolPlaylist,
                     data |-> InvalidJSON] >>
    /\ active_channels = EmptyDict
    /\ tasks = <<>>
    /\ exit_code = "none"
    /\ call = [CallOf("m3u", PoolSource, PoolPlaylist, InvalidJSON) EXCEPT
                 !.heap_before = 0, !.seen_before = {}, !.clock_before = 0]
    /\ fetch = NoFetch
    /\ files = NoFiles
    /\ lock = 0

\* The pool's queue is first in, first out: the next task a free worker takes
NextQueued(t) ==
    tasks[t].st = "pending" /\ \A x \in 1..(t - 1) : tasks[x].st # "pending"

\* The oldest task whose result the collecting thread has not taken yet
Oldest(t) ==
    tasks[t].st # "collected" /\ \A x \in 1..(t - 1) : tasks[x].st = "collected"

PoolStart == \E t \in 1..Len(tasks) : NextQueued(t) /\ WorkerStart(t)

PoolAcquire == \E t \in 1..Len(tasks) : Oldest(t) /\ WorkerAcquire(t)

PoolCheckCache == \E t \in 1..Len(tasks) : Oldest(t) /\ WorkerCheckCache(t)

PoolProbe == \E t \in 1..Len(tasks) : Oldest(t) /\ WorkerProbe(t) /\ tasks'[t].head = "ok"

PoolStore == \E t \in 1..Len(tasks) : Oldest(t) /\ WorkerStore(t)

PoolCollect == \E t \in 1..Len(tasks) : Oldest(t) /\ Collect(t)

NextPool ==
    \/ StartValidation
    \/ PoolStart
    \/ PoolAcquire
    \/ PoolCheckCache
    \/ PoolProbe
    \/ PoolStore
    \/ PoolCollect
    \/ FinishValidation
    \/ ExportJSON
    \/ ExportM3U
    \/ ExportStats
    \/ Exit

SpecPool == InitPool /\ [][NextPool]_vars


(***************************************************************************)
(* Properties.                                                             *)
(***************************************************************************)
\* The places of a store: <<group, index>>
Positions(d) == UNION {{<<g, k>> : k \in 1..Len(d[g])} : g \in DOMAIN d}

ObjAt(d, p) == d[p[1]][p[2]]

UrlAt(d, p) == heap[ObjAt(d, p)].url

UniqueURLs(d) == \A p, q \in Positions(d) : p # q => UrlAt(d, p) # UrlAt(d, q)

Failed == {"bad", "err"}

\* A probe that was made met a status below 400
ProbeLive(tk) == "ok" \in {tk.head, tk.get, tk.alt}

Finished(tk) == tk.st \in {"done", "collected"}

AfterValidation == pc \in {"export", "done"} /\ check_links

\* C1: during ingestion (any sequence of parse_m3u_content and parse_json_content
\* calls of one run of process_sources) no two records of the store have the same
\* URL, and every stored URL is non-empty.
C1_UniqueWhileIngesting ==
    pc \in {"primary", "secondary"} =>
        /\ UniqueURLs(channels)
        /\ \A p \in Positions(channels) : UrlAt(channels, p) # <<>>

\* C1 witness: the JSON parser has just dropped a URL that an earlier source put
\* into a store of two records.
C1_Witness ==
    /\ pc = "secondary"
    /\ call.parser = "json"
    /\ Len(heap) = call.heap_before
    /\ json_urls(call.data) \cap call.seen_before # {}
    /\ total_channels(channels) = 2

\* C2: at the end of a run with validation enabled, after the active records' URLs
\* were rewritten to their resolved URLs, no two records of the final store share a
\* URL.
C2_UniqueAfterValidation == AfterValidation => UniqueURLs(channels)

\* C3: after validation the final store holds exactly the records of the
\* pre-validation store whose probe resolved as live: each once, under its
\* original group, with status 'active'; no other record is in it.
C3_FinalStoreIsLiveRecords ==
    AfterValidation =>
        \A i \in 1..Len(heap) :
            LET occ == {p \in Positions(channels) : ObjAt(channels, p) = i}
            IN  IF \E t \in 1..Len(tasks) : tasks[t].ch = i /\ ProbeLive(tasks[t])
                THEN /\ Cardinality(occ) = 1
                     /\ \A p \in occ : p[1] = heap[i].group
                     /\ heap[i].status = "active"
                ELSE occ = {}

\* C3 witness: a run ended with one of two records live (by its content probe)
\* and kept, the other dropped.
C3_Witness ==
    /\ pc = "done" /\ check_links
    /\ Len(heap) = 2
    /\ total_channels(channels) = 1
    /\ \E t \in 1..Len(tasks) : tasks[t].head = "err" /\ tasks[t].get = "ok"

\* C4: a URL whose header probe, content probe and opposite-scheme header probe
\* all fail is reported not live, its record gets status 'inactive' and is absent
\* from the store after filter_active_channels.
C4_AllProbesFail ==
    \A t \in 1..Len(tasks) :
        ( /\ Finished(tasks[t])
          /\ tasks[t].head \in Failed
          /\ tasks[t].get \in Failed \cup {"none"}
          /\ tasks[t].alt \in Failed \cup {"none"} )
        => /\ ~tasks[t].raised
           /\ ~tasks[t].is_active
           /\ tasks[t].updated_url = tasks[t].url
           /\ tasks[t].st = "collected" => heap[tasks[t].ch].status = "inactive"
           /\ pc \in {"export", "done"} => tasks[t].ch \notin StoreObjs(channels)

\* C4 witness: a run ended in which all three probes of a URL met transport errors.
C4_Witness ==
    /\ pc = "done"
    /\ \E t \in 1..Len(tasks) :
         tasks[t].head = "err" /\ tasks[t].get = "err" /\ tasks[t].alt = "err"

\* The URL with its scheme swapped between http and https
OppositeScheme(url) ==
    <<IF Head(url) = "https://" THEN "http://" ELSE "https://">> \o Tail(url)

\* C5: an http or https URL that is not reachable under its own scheme (transport
\* error or a status of 400 or above) but is reachable under the opposite scheme is
\* marked 'active', kept in the final store, and its URL is rewritten to the
\* opposite-scheme variant.
C5_FlippedToOppositeScheme ==
    \A t \in 1..Len(tasks) :
        ( /\ tasks[t].st = "collected"
          /\ Head(tasks[t].url) \in {"http://", "https://"}
          /\ tasks[t].head \in Failed
          /\ tasks[t].get \in Failed \cup {"none"}
          /\ tasks[t].alt = "ok" )
        => /\ heap[tasks[t].ch].status = "active"
           /\ heap[tasks[t].ch].url = OppositeScheme(tasks[t].url)
           /\ pc \in {"export", "done"} => tasks[t].ch \in StoreObjs(channels)

\* C6: whenever the header probe does not succeed, by transport error or by a
\* status of 400 or above, the content probe on the same URL is made before the
\* scheme flip.
C6_ContentProbeAfterAnyFailure ==
    \A t \in 1..Len(tasks) :
        (Finished(tasks[t]) /\ tasks[t].head \in Failed) => tasks[t].get # "none"

\* A task that ran, or is running, the probe sequence
Probed(tk) == tk.st = "probing" \/ tk.head # "none"

C8_RaisedMeansInactive ==
    \A t \in 1..Len(tasks) :
        (tasks[t].st = "collected" /\ tasks[t].raised) => heap[tasks[t].ch].status = "inactive"

\* Whether the parsed content of log entry e lists the stream URL u
Lists(e, u) ==
    \/ e.parser = "m3u" /\ \E k \in 1..Len(e.lines) : strip(e.lines[k]) = u
    \/ e.parser = "json" /\ u \in json_urls(e.data)

Listers(u) == {k \in 1..Len(fetched) : Lists(fetched[k], u)}

\* The URL itself answered its header or content probe
OwnLive(u) ==
    \E t \in 1..Len(tasks) : tasks[t].url = u /\ "ok" \in {tasks[t].head, tasks[t].get}

\* C9: when two sources list the same stream URL (the URL being live, or
\* validation skipped) the final store holds exactly one record with that URL, the
\* one built from the source parsed first.
C9_OneRecordFromFirstSource ==
    pc = "done" =>
        \A u \in seen_urls :
            (Cardinality(Listers(u)) >= 2 /\ (~check_links \/ OwnLive(u)))
            => LET occ   == {p \in Positions(channels) : UrlAt(channels, p) = u}
                   first == CHOOSE k \in Listers(u) : \A j \in Listers(u) : k <= j
               IN  /\ Cardinality(occ) = 1
                   /\ \A p \in occ : heap[ObjAt(channels, p)].source = fetched[first].source


\* The last parser call was parse_m3u_content on its own
M3UCallDone == pc = "unit_done" /\ call.parser = "m3u"

IsMeta(raw) == startswith(strip(raw), "#EXTINF:")

\* The metadata lines of the last call that a URL line follows immediately
Pairs ==
    {k \in 1..(Len(call.lines) - 1) :
        IsMeta(call.lines[k]) /\ IsStreamLine(strip(call.lines[k + 1]))}

\* The timestamp taken for line k: one tick per metadata line before it
Stamp(k) == call.clock_before + Cardinality({j \in 1..(k - 1) : IsMeta(call.lines[j])})

\* The records the last call added for the metadata line k
NewFrom(k) == {i \in (call.heap_before + 1)..Len(heap) : heap[i].added_date = Stamp(k)}

\* s with each whitespace token that follows a whitespace token dropped and the
\* others turned into one space
RECURSIVE Squeeze(_, _)
Squeeze(s, after_space) ==
    IF s = <<>> THEN <<>>
    ELSE IF IsSpace(Head(s))
         THEN (IF after_space THEN <<>> ELSE <<" ">>) \o Squeeze(Tail(s), TRUE)
         ELSE <<Head(s)>> \o Squeeze(Tail(s), FALSE)

\* The name the claim gives the metadata line: the text after its first comma,
\* trimmed, whitespace runs collapsed; 'Unknown Channel' when no text follows a comma
ExpectedName(raw) ==
    LET line   == strip(raw)
        commas == {i \in 1..Len(line) : line[i] = ","}
        first  == CHOOSE i \in commas : \A j \in commas : i <= j
    IN  IF commas = {} \/ first = Len(line) THEN <<"Unknown Channel">>
        ELSE strip(Squeeze(SubSeq(line, first + 1, Len(line)), FALSE))

\* Line j is a URL line met while a metadata line is pending
PendingAt(j) ==
    \E m \in 1..(j - 1) :
        /\ IsMeta(call.lines[m])
        /\ \A x \in (m + 1)..(j - 1) : ~IsStreamLine(strip(call.lines[x]))

\* The URL u is in the seen-URL set when line j is reached
SeenAt(j, u) ==
    \/ u \in call.seen_before
    \/ \E x \in 1..(j - 1) : strip(call.lines[x]) = u /\ PendingAt(x)

\* The one record of metadata line k, with the URL of the next line and the name
OneRecordFor(k) ==
    /\ Cardinality(NewFrom(k)) = 1
    /\ \A i \in NewFrom(k) :
         /\ heap[i].url = strip(call.lines[k + 1])
         /\ heap[i].name = ExpectedName(call.lines[k])

Superseded ==
    {k \in 1..Len(call.lines) :
        /\ IsMeta(call.lines[k])
        /\ \E m \in (k + 1)..Len(call.lines) :
             /\ IsMeta(call.lines[m])
             /\ \A x \in (k + 1)..(m - 1) : ~IsStreamLine(strip(call.lines[x]))}

\* The most recent metadata line before line j (0 when there is none)
LastMetaBefore(j) ==
    LET metas == {m \in 1..(j - 1) : IsMeta(call.lines[m])}
    IN  IF metas = {} THEN 0 ELSE CHOOSE m \in metas : \A x \in metas : x <= m

\* C11: in parse_m3u_content a metadata line followed by another metadata line
\* before any URL line yields no record, and every record the call adds pairs a
\* URL line with the most recent metadata line before it (its timestamp and name).
C11_SupersededMetadataDropped ==
    M3UCallDone =>
        /\ \A k \in Superseded : NewFrom(k) = {}
        /\ \A i \in (call.heap_before + 1)..Len(heap) :
             \E j \in 1..Len(call.lines) :
                /\ strip(call.lines[j]) = heap[i].url
                /\ LastMetaBefore(j) # 0
                /\ heap[i].added_date = Stamp(LastMetaBefore(j))
                /\ heap[i].name = ExpectedName(call.lines[LastMetaBefore(j)])

\* C11 witness: two metadata lines in a row, then a URL line that gave a record
\* carrying the second line's group.
C11_Witness ==
    /\ M3UCallDone
    /\ \E k \in Superseded :
         /\ k + 2 <= Len(call.lines)
         /\ IsMeta(call.lines[k + 1])
         /\ re_search_attr("group-title", call.lines[k]) = <<>>
         /\ \E i \in NewFrom(k + 1) :
              heap[i].url = strip(call.lines[k + 2]) /\ heap[i].group = "G"

\* The records the last parser call added
NewRecords == (call.heap_before + 1)..Len(heap)

\* The metadata line the playlist record i was built from
MetaOf(i) == CHOOSE k \in 1..Len(call.lines) : IsMeta(call.lines[k]) /\ Stamp(k) = heap[i].added_date

\* The catalog item the JSON record i was built from: the first one with its URL
ItemOf(i) ==
    LET hits == {x \in 1..Len(call.data.v) :
                    /\ call.data.v[x].t = "dict"
                    /\ "url" \in DOMAIN call.data.v[x].v
                    /\ call.data.v[x].v.url = heap[i].url}
    IN  call.data.v[CHOOSE x \in hits : \A y \in hits : x <= y].v

\* The metadata line carries no tvg-logo attribute, or an empty one
LineLacksLogo(raw) ==
    \A x \in 1..Len(raw) : AttrKey(raw[x]) = "tvg-logo" => AttrValue(raw[x]) = ""

\* The catalog item carries no logo key (img, logo), or only empty ones
ItemLacksLogo(v) == \A key \in {"img", "logo"} \cap DOMAIN v : v[key] = ""

\* C12: every record admitted by the playlist parser or by the JSON parser whose
\* source entry carries no logo attribute, or a logo attribute with the empty
\* string as its value, has the default placeholder as its logo.
C12_MissingLogoGetsDefault ==
    pc = "unit_done" =>
        \A i \in NewRecords :
            IF call.parser = "m3u"
            THEN LineLacksLogo(call.lines[MetaOf(i)]) => heap[i].logo = default_logo
            ELSE ItemLacksLogo(ItemOf(i)) => heap[i].logo = default_logo

\* Ingestion is over: process_sources is at or past its call of
\* filter_active_channels
PastIngestion == pc \notin {"main", "primary", "secondary"}

\* C13: with check_links false, filter_active_channels and everything after it
\* leave the store, the records (their URLs) and the status cache as ingestion
\* left them; no probe task is made, no record carries a status, every exported
\* record has status 'unknown' and the statistics export reports 'not_checked'.
C13_SkippedValidationIsNoOp ==
    /\ [](~check_links =>
            /\ pc # "validating" /\ tasks = <<>>
            /\ url_status_cache = EmptyDict
            /\ \A i \in 1..Len(heap) : heap[i].status = Absent
            /\ "AniXLinks.json" \in DOMAIN files =>
                  \A k \in 1..Len(files["AniXLinks.json"].channels) :
                     \A x \in 1..Len(files["AniXLinks.json"].channels[k].channels) :
                        files["AniXLinks.json"].channels[k].channels[x].status = "unknown"
            /\ "stats.json" \in DOMAIN files =>
                  /\ files["stats.json"].active_channels.t = "str"
                  /\ files["stats.json"].active_channels.v = "not_checked")
    /\ [][(~check_links /\ (PastIngestion \/ PastIngestion'))
          => UNCHANGED <<channels, heap, seen_urls, url_status_cache>>]_vars

\* C13 witness: a run without validation ended after exporting a store of two
\* records.
C13_Witness ==
    /\ pc = "done" /\ ~check_links
    /\ total_channels(channels) = 2
    /\ files["AniXLinks.json"].meta.total_channels = 2
    /\ files["stats.json"].total_channels = 2

ExportNames == {"AniXLinks.json", "AniXLinks.m3u", "stats.json"}

\* The three exports are on disk and describe the final store
ExportsWritten ==
    /\ ExportNames \subseteq DOMAIN files
    /\ files["AniXLinks.json"].meta.total_channels = total_channels(channels)
    /\ Len(files["AniXLinks.m3u"].body) = total_channels(channels)
    /\ files["stats.json"].total_channels = total_channels(channels)

\* C14 as stated: the process exits with a non-zero status exactly when no channel
\* was collected during ingestion, with status zero whenever at least one was,
\* and in both cases the three exports are written before the exit.
C14_ExitNonZeroIffNothingIngested ==
    pc = "done" =>
        /\ exit_code = (IF Len(heap) = 0 THEN 1 ELSE 0)
        /\ ExportsWritten

\* C14 amended: the process exits with a non-zero status exactly when the final
\* store is empty, that is when ingestion admitted no channel or validation was
\* enabled and marked no admitted channel 'active'; otherwise it exits with zero;
\* in both cases the three exports are written before the exit.
C14_ExitNonZeroIffFinalStoreEmpty ==
    /\ pc = "done" =>
         /\ exit_code = (IF \/ Len(heap) = 0
                            \/ check_links /\ \A i \in 1..Len(heap) : heap[i].status # "active"
                         THEN 1 ELSE 0)
         /\ ExportsWritten
    /\ pc # "done" => exit_code = "none"

\* C14 witness: a run that admitted a channel, found it not live, wrote the three
\* exports and exited with status 1.
C14_Witness ==
    /\ pc = "done"
    /\ Len(heap) >= 1
    /\ exit_code = 1
    /\ ExportsWritten

\* The attempt met a response with non-empty content
YieldsContent(o) == o.ok /\ response_content(o.resp) # <<>>

\* Every source the driver has reached so far has its entry in the log
Handled ==
    {fetched[k].source : k \in 1..Len(fetched)}

\* C15: fetch_content makes at least one and at most 3 attempts, makes no attempt
\* after the first one that yields non-empty content, which it returns, and
\* returns (None, []) when all 3 attempts fail or yield no content; after an empty
\* result the driver leaves the store and the seen-URL set unchanged for that
\* source and goes on to every remaining source.
C15_BoundedRetriesThenSkip ==
    /\ [](fetch # NoFetch =>
            /\ Len(fetch.outcomes) \in 1..max_retries
            /\ \A k \in 1..(Len(fetch.outcomes) - 1) : ~YieldsContent(fetch.outcomes[k])
            /\ YieldsContent(fetch.outcomes[Len(fetch.outcomes)]) =>
                  fetch.content = response_content(fetch.outcomes[Len(fetch.outcomes)].resp)
            /\ ( /\ Len(fetch.outcomes) = max_retries
                 /\ \A k \in 1..max_retries : ~YieldsContent(fetch.outcomes[k]) )
               => fetch.content = <<>> /\ fetch.lines = <<>>)
    /\ [](PastIngestion =>
            /\ \A k \in 1..Len(get_premium_sources) : get_premium_sources[k] \in Handled
            /\ all_m3u_urls \subseteq Handled)
    /\ [][(fetched' # fetched /\ fetch'.content = <<>>)
          => UNCHANGED <<heap, channels, seen_urls>>]_vars

\* The first loop's body has handled a primary source whose fetch gave content
RoutedDone == pc = "unit_done" /\ fetch # NoFetch /\ fetch.content # <<>>

\* The parser the driver applied to the last source
Applied == fetched[Len(fetched)].parser

UrlNamesHTML(url) == \E i \in 1..Len(url) : url[i] \in {"html", ".html", "HTML"}

UrlNamesJSON(url) == \E i \in 1..Len(url) : url[i] \in {"json", ".json", "JSON", ".JSON"}

\* The content is a JSON document
LooksLikeJSON(data) == data.t # "invalid"

\* The text json stands within the first 100 characters of the content
NamesJSONEarly(content) ==
    \E i \in 1..Len(content) : i <= 100 /\ content[i] \in {"json", ".json", "JSON", ".JSON"}

\* Exactly the parser named by `to` acted on the source
OnlyApplied(to) ==
    /\ Applied = to
    /\ call.parser = (IF to = "html" THEN "none" ELSE to)
    /\ to = "html" => heap = <<>> /\ seen_urls = {}
    /\ to # "html" => all_m3u_urls = {}

InAdmissionOrder(d) ==
    \A g \in DOMAIN d :
        \A x, y \in 1..Len(d[g]) : x < y => d[g][x] < d[g][y]

\* The JSON export lists the groups by ascending label and each group's records
\* as its list in the store has them
JSONExportOrdered ==
    LET out == files["AniXLinks.json"].channels
    IN  /\ \A k, m \in 1..Len(out) : k < m => label_lt(out[k].group, out[m].group)
        /\ {out[k].group : k \in 1..Len(out)} = DOMAIN channels
        /\ \A k \in 1..Len(out) :
             /\ Len(out[k].channels) = Len(channels[out[k].group])
             /\ \A x \in 1..Len(out[k].channels) :
                  out[k].channels[x].url = heap[channels[out[k].group][x]].url

\* The playlist export does the same
M3UExportOrdered ==
    LET body == files["AniXLinks.m3u"].body
    IN  \A n, m \in 1..Len(body) :
            n < m =>
              \/ label_lt(body[n].extinf.group, body[m].extinf.group)
              \/ /\ body[n].extinf.group = body[m].extinf.group
                 /\ \E x, y \in 1..Len(channels[body[n].extinf.group]) :
                      /\ x < y
                      /\ heap[channels[body[n].extinf.group][x]].url = body[n].url
                      /\ heap[channels[body[n].extinf.group][y]].url = body[m].url

\* C17: insertion order within a group is kept through the whole run, under
\* every interleaving of probe completions: of two records of one group in the
\* store, the one admitted earlier comes first; the exports list the groups in
\* lexicographic order of their labels and each group's records in list order.
C17_InsertionOrderKept ==
    /\ InAdmissionOrder(channels)
    /\ "AniXLinks.json" \in DOMAIN files => JSONExportOrdered
    /\ "AniXLinks.m3u" \in DOMAIN files => M3UExportOrdered

\* The tasks whose worker is inside a "with self.lock" block
InLockedBlock == {t \in 1..Len(tasks) : tasks[t].st \in {"checking", "storing"}}

\* Task t alone moved, from state `from` to state `to`
Moved(t, from, to) ==
    /\ tasks[t].st = from /\ tasks'[t].st = to
    /\ \A x \in 1..Len(tasks) : x # t => tasks'[x] = tasks[x]

\* C19: during validation a worker reads and writes the status cache only while
\* it holds the lock, and at most one worker is inside a locked block at a time;
\* the filtered store and the records (their url and status) are written only by
\* the collecting thread, in its as_completed loop, never by a worker.
C19_CacheUnderLockSingleWriter ==
    /\ [](/\ Cardinality(InLockedBlock) <= 1
          /\ \A t \in InLockedBlock : lock = t
          /\ InLockedBlock = {} => lock = 0)
    /\ [][pc = "validating" =>
            /\ \A t \in 1..Len(tasks) :
                 (tasks[t].st = "checking" /\ tasks'[t].st # "checking") => lock = t
            /\ url_status_cache' # url_status_cache =>
                 \E t \in 1..Len(tasks) : lock = t /\ Moved(t, "storing", "done")
            /\ (heap' # heap \/ active_channels' # active_channels) =>
                 /\ lock' = lock
                 /\ \E t \in 1..Len(tasks) : Moved(t, "done", "collected")
            /\ channels' # channels =>
                 /\ tasks' = tasks
                 /\ \A t \in 1..Len(tasks) : tasks[t].st = "collected"]_vars

\* C19 witness: one worker is inside the block that stores its result while the
\* worker of another task has started and has not finished its probes.
C19_Witness ==
    /\ pc = "validating"
    /\ \E t, u \in 1..Len(tasks) :
         /\ tasks[t].st = "storing" /\ lock = t
         /\ tasks[u].st \in {"started", "probing"}

\* Every submitted probe task has finished and its result has been taken
AllCollected == \A t \in 1..Len(tasks) : tasks[t].st = "collected"

SecondLoop == {k \in 1..Len(fetched) : k > Len(get_premium_sources)}

\* C20: an HTML source adds no record to the store and no URL to the seen-URL
\* set, it only adds to the set of discovered playlist URLs, and nothing else
\* adds to that set; each discovered URL is fetched exactly once, after every
\* primary source has been processed, and whatever it serves goes to the
\* playlist parser.
C20_DiscoveredFetchedOnceAsPlaylist ==
    /\ [](/\ pc = "primary" => Len(fetched) = src_idx - 1 /\ m3u_done = {}
          /\ \A k \in SecondLoop :
               /\ fetched[k].source \in all_m3u_urls
               /\ fetched[k].parser = (IF fetched[k].lines # <<>> THEN "m3u" ELSE "skipped")
               /\ \A j \in SecondLoop : fetched[j].source = fetched[k].source => j = k
          /\ PastIngestion =>
               \A u \in all_m3u_urls : \E k \in SecondLoop : fetched[k].source = u)
    /\ [][(pc = "primary" /\ fetched' # fetched) =>
            IF fetched'[Len(fetched')].parser = "html"
            THEN /\ UNCHANGED <<heap, channels, seen_urls>>
                 /\ all_m3u_urls \subseteq all_m3u_urls'
            ELSE all_m3u_urls' = all_m3u_urls]_vars
    /\ [][pc # "primary" => all_m3u_urls' = all_m3u_urls]_vars

\* C20 witness: the page of the HTML source gave a playlist URL, which was fetched
\* in the second loop; the playlist it served mentions a .json file in its first
\* line and the playlist parser admitted its channel.
C20_Witness ==
    /\ pc = "secondary"
    /\ all_m3u_urls # {} /\ all_m3u_urls = m3u_done
    /\ call.parser = "m3u" /\ call.source \in all_m3u_urls
    /\ has_text(call.lines[1], "json")
    /\ \E i \in 1..Len(heap) : heap[i].source \in all_m3u_urls

\* The first or the second loop of process_sources is running, or has just ended
Ingesting == pc \in {"primary", "secondary"}

\* The URLs of the records of a store
StoreURLs(d, h) == {h[i].url : i \in StoreObjs(d)}

Metas == {k \in 1..Len(call.lines) : IsMeta(call.lines[k])}

\* The URL lines of the last call
StreamLines == {j \in 1..Len(call.lines) : IsStreamLine(strip(call.lines[j]))}

\* The URL line that meets the metadata line m pending: the first URL line after
\* m, unless another metadata line comes before it (0 when there is none)
ConsumerOf(m) ==
    LET later == {j \in StreamLines : j > m}
        first == CHOOSE j \in later : \A x \in later : j <= x
    IN  IF later = {} THEN 0
        ELSE IF \E x \in (m + 1)..(first - 1) : IsMeta(call.lines[x]) THEN 0
        ELSE first

\* C22: in parse_m3u_content a pending metadata line is consumed by at most one
\* URL line.  A metadata line yields at most one record, and only with the first
\* URL line after it; when that URL line is rejected as a duplicate the metadata
\* line yields no record, whatever URL lines follow; a URL line met with nothing
\* pending yields no record; and every record of a call is built from a metadata
\* line of the same call, never from one left pending by an earlier source.
C22_PendingConsumedOnce ==
    M3UCallDone =>
        /\ \A m \in Metas :
              /\ Cardinality(NewFrom(m)) <= 1
              /\ \A i \in NewFrom(m) :
                    /\ ConsumerOf(m) # 0
                    /\ heap[i].url = strip(call.lines[ConsumerOf(m)])
              /\ (/\ ConsumerOf(m) # 0
                  /\ SeenAt(ConsumerOf(m), strip(call.lines[ConsumerOf(m)])))
                 => NewFrom(m) = {}
        /\ \A i \in NewRecords :
              /\ heap[i].source = call.source
              /\ \E m \in Metas : i \in NewFrom(m)
        /\ Cardinality(NewRecords) <= Cardinality({j \in StreamLines : PendingAt(j)})

\* C22 witness: the earlier source ended on a pending metadata line; the call
\* began with a URL line the seen-URL set did not hold, then met a metadata line
\* whose URL line was rejected as a duplicate, then another fresh URL line; it
\* added no record.
C22_Witness ==
    /\ M3UCallDone
    /\ fetched[1].parser = "m3u"
    /\ IsMeta(fetched[1].lines[Len(fetched[1].lines)])
    /\ 1 \in StreamLines
    /\ strip(call.lines[1]) \notin call.seen_before
    /\ \E m \in Metas :
         /\ ConsumerOf(m) # 0
         /\ strip(call.lines[ConsumerOf(m)]) \in call.seen_before
         /\ ConsumerOf(m) + 1 \in StreamLines
         /\ strip(call.lines[ConsumerOf(m) + 1]) \notin call.seen_before
    /\ NewRecords = {}

\* C23: at the end of a run with validation enabled every record of the final
\* store has status 'active', the statistics export gives the store's size both as
\* its total and as its active-channel count, and every group key of the final
\* store holds at least one record.
C23_FinalStoreAllActive ==
    (pc = "done" /\ check_links) =>
        /\ \A i \in StoreObjs(channels) : heap[i].status = "active"
        /\ files["stats.json"].total_channels = total_channels(channels)
        /\ files["stats.json"].active_channels =
              [t |-> "int", v |-> files["stats.json"].total_channels]
        /\ \A g \in DOMAIN channels : Len(channels[g]) >= 1

\* C23 witness: a validated run ended with a record in its store, after every
\* record of some other group had failed its probe.
C23_Witness ==
    /\ pc = "done"
    /\ check_links
    /\ DOMAIN channels # {}
    /\ files["stats.json"].active_channels.v >= 1
    /\ \E t \in 1..Len(tasks) :
         /\ tasks[t].group \notin DOMAIN channels
         /\ heap[tasks[t].ch].status = "inactive"

====
